---- MODULE Spec2Model ----
(***************************************************************************)
(* Jewish calendar sensors (homeassistant/components/jewish_calendar/      *)
(* sensor.py): the sensor catalog, entity setup, the update cycle with its *)
(* day-boundary resolution, and the per-key value derivation of the info   *)
(* and time sensor classes.                                                *)
(*                                                                         *)
(* Time is discrete: an instant is an integer, DayLen instants make one    *)
(* civil day, and a civil date (and an HDate, which is anchored to one) is *)
(* its day index.  Optional values (Python's None) are sequences of length *)
(* at most one: <<>> is None and <<x>> is x.                               *)
(***************************************************************************)
EXTENDS Integers, Sequences, FiniteSets, TLC

MaxDay == 3
DayLen == 4
MaxElapsed == 1

MaxClock == (MaxDay + 1) * DayLen - 1

None == <<>>
Some(x) == <<x>>
Unassigned == 0 - 1

(***************************************************************************)
(* The catalog.                                                            *)
(***************************************************************************)
INFO_SENSORS ==
    << "date", "weekly_portion", "holiday", "omer_count", "daf_yomi" >>

\* TIME_SENSORS with its last descriptor left out.
TIME_SENSORS_Short ==
    << "first_light", "talit", "sunrise", "gra_end_shma", "mga_end_shma",
       "gra_end_tfila", "mga_end_tfila", "midday", "big_mincha",
       "small_mincha", "plag_mincha", "sunset", "first_stars", "three_stars",
       "upcoming_shabbat_candle_lighting", "upcoming_shabbat_havdalah",
       "upcoming_candle_lighting" >>

TIME_SENSORS ==
    << "first_light", "talit", "sunrise", "gra_end_shma", "mga_end_shma",
       "gra_end_tfila", "mga_end_tfila", "midday", "big_mincha",
       "small_mincha", "plag_mincha", "sunset", "first_stars", "three_stars",
       "upcoming_shabbat_candle_lighting", "upcoming_shabbat_havdalah",
       "upcoming_candle_lighting", "upcoming_havdalah" >>

Range(s) == { s[i] : i \in 1..Len(s) }

InfoKeys == Range(INFO_SENSORS)
TimeKeys == Range(TIME_SENSORS)

\* The keys JewishCalendarTimeSensor.get_state has a branch for.
UpcomingKeys ==
    { "upcoming_shabbat_candle_lighting", "upcoming_candle_lighting",
      "upcoming_shabbat_havdalah", "upcoming_havdalah" }

\* A key neither class has a branch for and the time table has no field for.
UnmappedKey == "unmapped_key"

InfoClass == "JewishCalendarSensor"
TimeClass == "JewishCalendarTimeSensor"

(***************************************************************************)
(* dt_util / datetime.                                                     *)
(***************************************************************************)
Date(t) == t \div DayLen

(***************************************************************************)
(* The hdate library, as far as the sensors navigate it.  The civil        *)
(* calendar is a fixed one: day 0 is a Thursday, and days 0, 1 and 6 of    *)
(* every fortnight are Yom Tov (so days 0..2 are a three-day run of Yom    *)
(* Tov and Shabbat, and day 6 is a lone mid-week Yom Tov).                 *)
(***************************************************************************)
Weekday(d) == (d + 3) % 7

IsShabbat(d) == Weekday(d) = 5
IsYomTov(d) == (d % 14) \in {0, 1, 6}
IsRestDay(d) == IsShabbat(d) \/ IsYomTov(d)

next_day(h) == h + 1
previous_day(h) == h - 1
gdate(h) == h

upcoming_shabbat(h) == h + ((12 - Weekday(h)) % 7)

upcoming_yom_tov(h) == CHOOSE d \in h..(h + 14) :
                          /\ IsYomTov(d)
                          /\ \A x \in h..(d - 1) : ~IsYomTov(x)

upcoming_shabbat_or_yom_tov(h) ==
    IF IsRestDay(h) THEN h
    ELSE IF upcoming_yom_tov(h) < upcoming_shabbat(h)
         THEN upcoming_yom_tov(h)
         ELSE upcoming_shabbat(h)

RECURSIVE first_day(_)
first_day(h) == IF IsRestDay(h - 1) THEN first_day(h - 1) ELSE h

RECURSIVE last_day(_)
last_day(h) == IF IsRestDay(h + 1) THEN last_day(h + 1) ELSE h

\* A field read from an HDate: which field, of which date.
Field(f, h) == [field |-> f, date |-> h]

PARASHAOT ==
    << [hebrew |-> "p0_he", english |-> "p0_en"],
       [hebrew |-> "p1_he", english |-> "p1_en"],
       [hebrew |-> "p2_he", english |-> "p2_en"] >>

HOLIDAYS ==
    << [hebrew |-> "h0_he", english |-> "h0_en"],
       [hebrew |-> "h1_he", english |-> "h1_en"] >>

(***************************************************************************)
(* The Zmanim table of a civil date.                                       *)
(***************************************************************************)
ZmanimFields ==
    { "first_light", "talit", "sunrise", "gra_end_shma", "mga_end_shma",
      "gra_end_tfila", "mga_end_tfila", "midday", "big_mincha",
      "small_mincha", "plag_mincha", "sunset", "first_stars", "three_stars" }

HavdalahTod == DayLen - 2

\* Zmanim.havdalah: the instant Shabbat or Yom Tov ends on that civil date;
\* None on a date that ends neither.
Havdalah(d) ==
    IF IsRestDay(d) /\ ~IsRestDay(d + 1)
    THEN Some(d * DayLen + HavdalahTod)
    ELSE None

\* Zmanim.candle_lighting / Zmanim.havdalah as a sensor value.
ZmanimRead(d, f) ==
    IF f = "havdalah" /\ Havdalah(d) = None THEN None
    ELSE IF f = "candle_lighting" /\ ~IsRestDay(d + 1) THEN None
    ELSE Some(Field(f, d))

make_zmanim(date) == date

VARIABLES
    clock,      \* the wall clock dt_util.now() reads
    entities,   \* the sensors async_setup_entry handed to the host
    cls,        \* the class of the sensor under update
    key,        \* its entity_description.key
    hebrew,     \* its _hebrew
    value,      \* its _attr_native_value
    attrs,      \* its _attrs
    options,    \* its _attr_options
    outcome,    \* how its last update cycle ended
    local       \* the locals of its last update cycle

vars == << clock, entities, cls, key, hebrew, value, attrs, options,
           outcome, local >>

sensor == << cls, key, hebrew >>

NoLocals ==
    [ now |-> Unassigned, today |-> Unassigned, event_date |-> None,
      daytime_date |-> Unassigned, after_shkia_date |-> Unassigned,
      after_tzais_date |-> Unassigned, havdalah |-> None,
      zmanim_date |-> Unassigned, zmanim_field |-> "" ]

Init ==
    /\ clock = 0
    /\ entities = << >>
    /\ \/ cls = InfoClass /\ key \in InfoKeys \cup {UnmappedKey}
       \/ cls = TimeClass /\ key \in TimeKeys \cup {UnmappedKey}
    /\ hebrew \in BOOLEAN
    /\ value = None
    /\ attrs = {}
    /\ options = None
    /\ outcome = "none"
    /\ local = NoLocals

Tick ==
    /\ clock < MaxClock
    /\ clock' = clock + 1
    /\ UNCHANGED << entities, cls, key, hebrew, value, attrs, options,
                    outcome, local >>

(***************************************************************************)
(* async_setup_entry: one JewishCalendarSensor per info descriptor, then   *)
(* one JewishCalendarTimeSensor per time descriptor.                       *)
(***************************************************************************)
SetupSensors ==
    [ i \in 1..Len(INFO_SENSORS) |->
          [cls |-> InfoClass, key |-> INFO_SENSORS[i]] ]
    \o [ i \in 1..Len(TIME_SENSORS) |->
          [cls |-> TimeClass, key |-> TIME_SENSORS[i]] ]

async_setup_entry ==
    /\ entities = << >>
    /\ entities' = SetupSensors
    /\ UNCHANGED << clock, cls, key, hebrew, value, attrs, options,
                    outcome, local >>

(***************************************************************************)
(* get_astral_event_date(hass, SUN_EVENT_SUNSET, today): None, or an       *)
(* instant of that civil date.                                             *)
(***************************************************************************)
get_astral_event_date(today) ==
    {None} \cup { Some(today * DayLen + t) : t \in 0..(DayLen - 1) }

(***************************************************************************)
(* The day-boundary resolution of async_update.                            *)
(***************************************************************************)
\* The day already advances at the instant of sunset.
AfterShkiaDate_AtSunset(now, sunset, daytime_date) ==
    IF now >= sunset THEN next_day(daytime_date) ELSE daytime_date

AfterShkiaDate(now, sunset, daytime_date) ==
    IF now > sunset THEN next_day(daytime_date) ELSE daytime_date

\* The day already advances at the instant of havdalah.
AfterTzaisDate_AtHavdalah(now, havdalah, daytime_date) ==
    IF havdalah # None /\ now >= havdalah[1]
    THEN next_day(daytime_date)
    ELSE daytime_date

\* A missing havdalah counts as one that has passed.
AfterTzaisDate_MissingPassed(now, havdalah, daytime_date) ==
    IF havdalah = None \/ now > havdalah[1]
    THEN next_day(daytime_date)
    ELSE daytime_date

AfterTzaisDate(now, havdalah, daytime_date) ==
    IF havdalah # None /\ now > havdalah[1]
    THEN next_day(daytime_date)
    ELSE daytime_date

(***************************************************************************)
(* JewishCalendarSensor.get_state: the returned value, and what the call   *)
(* leaves in _attrs and _attr_options.                                     *)
(***************************************************************************)
Attr(n, f, h) == [name |-> n, field |-> f, date |-> h]

\* Every key reads the plain civil date.
InfoValue_Daytime(k, daytime_date, after_shkia_date, after_tzais_date) ==
    CASE k = "date" -> Some(Field("hebrew_date", daytime_date))
      [] k = "weekly_portion" ->
             Some(Field("parasha", upcoming_shabbat(daytime_date)))
      [] k = "holiday" -> Some(Field("holiday_description", daytime_date))
      [] k = "omer_count" -> Some(Field("omer_day", daytime_date))
      [] k = "daf_yomi" -> Some(Field("daf_yomi", daytime_date))
      [] OTHER -> None

InfoValue(k, daytime_date, after_shkia_date, after_tzais_date) ==
    CASE k = "date" -> Some(Field("hebrew_date", after_shkia_date))
      [] k = "weekly_portion" ->
             Some(Field("parasha", upcoming_shabbat(after_tzais_date)))
      [] k = "holiday" -> Some(Field("holiday_description", after_shkia_date))
      [] k = "omer_count" -> Some(Field("omer_day", after_shkia_date))
      [] k = "daf_yomi" -> Some(Field("daf_yomi", daytime_date))
      [] OTHER -> None

InfoAttrs(k, heb, old, after_shkia_date) ==
    CASE k = "date" ->
             { Attr("hebrew_year", "hdate.year", after_shkia_date),
               Attr("hebrew_month_name",
                    IF heb THEN "month.hebrew" ELSE "month.english",
                    after_shkia_date),
               Attr("hebrew_day", "hdate.day", after_shkia_date) }
      [] k = "holiday" ->
             { Attr("id", "holiday_name", after_shkia_date),
               Attr("type", "holiday_type.name", after_shkia_date),
               Attr("type_id", "holiday_type.value", after_shkia_date) }
      [] OTHER -> old

Names(table, heb) ==
    [ i \in 1..Len(table) |->
          IF heb THEN table[i].hebrew ELSE table[i].english ]

\* The holiday branch lists the Torah portions.
InfoOptions_Copied(k, heb, old) ==
    CASE k = "weekly_portion" -> Some(Names(PARASHAOT, heb))
      [] k = "holiday" -> Some(Names(PARASHAOT, heb))
      [] OTHER -> old

InfoOptions(k, heb, old) ==
    CASE k = "weekly_portion" -> Some(Names(PARASHAOT, heb))
      [] k = "holiday" -> Some(Names(HOLIDAYS, heb))
      [] OTHER -> old

(***************************************************************************)
(* JewishCalendarTimeSensor.get_state: the civil date the time table is    *)
(* made for, the field read from it, and the value (or the KeyError).      *)
(***************************************************************************)
\* The Shabbat candle-lighting branch forgets previous_day.
TimeRequestDate_SameDay(k, after_tzais_date, now2) ==
    CASE k = "upcoming_shabbat_candle_lighting" ->
             gdate(upcoming_shabbat(after_tzais_date))
      [] k = "upcoming_candle_lighting" ->
             gdate(previous_day(first_day(
                 upcoming_shabbat_or_yom_tov(after_tzais_date))))
      [] k = "upcoming_shabbat_havdalah" ->
             gdate(upcoming_shabbat(after_tzais_date))
      [] k = "upcoming_havdalah" ->
             gdate(last_day(upcoming_shabbat_or_yom_tov(after_tzais_date)))
      [] OTHER -> Date(now2)

TimeRequestDate(k, after_tzais_date, now2) ==
    CASE k = "upcoming_shabbat_candle_lighting" ->
             gdate(previous_day(upcoming_shabbat(after_tzais_date)))
      [] k = "upcoming_candle_lighting" ->
             gdate(previous_day(first_day(
                 upcoming_shabbat_or_yom_tov(after_tzais_date))))
      [] k = "upcoming_shabbat_havdalah" ->
             gdate(upcoming_shabbat(after_tzais_date))
      [] k = "upcoming_havdalah" ->
             gdate(last_day(upcoming_shabbat_or_yom_tov(after_tzais_date)))
      [] OTHER -> Date(now2)

TimeField(k) ==
    CASE k \in {"upcoming_shabbat_candle_lighting",
                "upcoming_candle_lighting"} -> "candle_lighting"
      [] k \in {"upcoming_shabbat_havdalah", "upcoming_havdalah"} -> "havdalah"
      [] OTHER -> k

TimeRaises(k) == k \notin UpcomingKeys /\ k \notin ZmanimFields

TimeValue(k, date) ==
    IF k \in UpcomingKeys
    THEN ZmanimRead(make_zmanim(date), TimeField(k))
    ELSE Some(Field(k, make_zmanim(date)))

(***************************************************************************)
(* async_update.                                                           *)
(***************************************************************************)
\* The skipped cycle resets the value.
SkipCycle_Resets(now, today) ==
    /\ outcome' = "skipped"
    /\ local' = [NoLocals EXCEPT !.now = now, !.today = today]
    /\ value' = None
    /\ UNCHANGED << clock, attrs, options >>

\* The sunset lookup returned None: log and return.
SkipCycle(now, today) ==
    /\ outcome' = "skipped"
    /\ local' = [NoLocals EXCEPT !.now = now, !.today = today]
    /\ UNCHANGED << clock, value, attrs, options >>

Resolved(now, today, sunset) ==
    [ NoLocals EXCEPT
        !.now = now,
        !.today = today,
        !.event_date = Some(sunset),
        !.daytime_date = today,
        !.havdalah = Havdalah(make_zmanim(today)),
        !.after_shkia_date = AfterShkiaDate(now, sunset, today),
        !.after_tzais_date =
            AfterTzaisDate(now, Havdalah(make_zmanim(today)), today) ]

InfoCycle(now, today, sunset) ==
    LET r == Resolved(now, today, sunset)
    IN /\ value' = InfoValue(key, r.daytime_date, r.after_shkia_date,
                             r.after_tzais_date)
       /\ attrs' = InfoAttrs(key, hebrew, attrs, r.after_shkia_date)
       /\ options' = InfoOptions(key, hebrew, options)
       /\ outcome' = "updated"
       /\ local' = r
       /\ UNCHANGED clock

\* now2 is what the second dt_util.now(), in get_state, reads.
TimeCycle(now, today, sunset, now2) ==
    LET r == Resolved(now, today, sunset)
        date == TimeRequestDate(key, r.after_tzais_date, now2)
    IN /\ local' = [r EXCEPT !.zmanim_date = date,
                             !.zmanim_field = TimeField(key)]
       /\ clock' = now2
       /\ UNCHANGED << attrs, options >>
       /\ IF TimeRaises(key)
          THEN outcome' = "raised" /\ UNCHANGED value
          ELSE outcome' = "updated" /\ value' = TimeValue(key, date)

async_update ==
    /\ \E event_date \in get_astral_event_date(Date(clock)) :
          LET now == clock
              today == Date(now)
          IN IF event_date = None
             THEN SkipCycle(now, today)
             ELSE IF cls = InfoClass
             THEN InfoCycle(now, today, event_date[1])
             ELSE IF key \in UpcomingKeys
             THEN TimeCycle(now, today, event_date[1], now)
             ELSE \E elapsed \in 0..MaxElapsed :
                     /\ now + elapsed <= MaxClock
                     /\ TimeCycle(now, today, event_date[1], now + elapsed)
    /\ UNCHANGED << entities, cls, key, hebrew >>

Next ==
    \/ Tick
    \/ async_setup_entry
    \/ async_update

Spec == Init /\ [][Next]_vars

(***************************************************************************)
(* Vocabulary of the properties.                                           *)
(***************************************************************************)
\* The last cycle got past the sunset lookup.
CycleResolved == outcome \in {"updated", "raised"}

\* The inputs of the last cycle, and the civil date of its "now".
CycleNow == local.now
CycleSunset == local.event_date[1]
CyclePlain == Date(local.now)
HavdalahPassed ==
    /\ Havdalah(CyclePlain) # None
    /\ CycleNow > Havdalah(CyclePlain)[1]

\* The interpretations, from the inputs alone.
PlainDate == CyclePlain
AfterSunset == IF CycleNow <= CycleSunset THEN CyclePlain ELSE CyclePlain + 1
AfterNightfall == IF HavdalahPassed THEN CyclePlain + 1 ELSE CyclePlain

AllNames(table) ==
    { IF hebrew THEN table[i].hebrew ELSE table[i].english :
          i \in 1..Len(table) }

\* An options list that is exactly the given set of names, each once.
IsExactly(opts, names) ==
    /\ opts # None
    /\ Range(opts[1]) = names
    /\ Len(opts[1]) = Cardinality(names)

PlainTimeKeys == TimeKeys \ UpcomingKeys

Unmapped ==
    \/ cls = InfoClass /\ key \notin InfoKeys
    \/ cls = TimeClass /\ key \notin UpcomingKeys /\ key \notin ZmanimFields

(***************************************************************************)
(* C1: a cycle whose sunset lookup returns None is skipped and leaves the  *)
(* sensor's value, attributes and options list exactly as they were, for   *)
(* every sensor and every prior state, across any number of such cycles.   *)
(***************************************************************************)
C1_SkippedCycleKeepsState ==
    [][outcome' = "skipped" => UNCHANGED << value, attrs, options >>]_vars

C1_Witness ==
    /\ outcome = "skipped"
    /\ key = "holiday"
    /\ value # None
    /\ attrs # {}
    /\ options # None

(***************************************************************************)
(* C2: in every cycle that got past the sunset lookup, afterSunset is the  *)
(* plain date when now <= sunset (now = sunset included) and the next day  *)
(* when now > sunset.                                                      *)
(***************************************************************************)
C2_AfterSunset ==
    CycleResolved =>
        /\ local.daytime_date = CyclePlain
        /\ CycleNow <= CycleSunset => local.after_shkia_date = CyclePlain
        /\ CycleNow > CycleSunset => local.after_shkia_date = CyclePlain + 1

C2_Witness ==
    /\ outcome = "updated"
    /\ CycleNow = CycleSunset
    /\ local.after_shkia_date = CyclePlain

(***************************************************************************)
(* C3: in every cycle that got past the sunset lookup, havdalah is read    *)
(* from the time table of the plain civil date, and afterNightfall is the  *)
(* plain date when havdalah is defined and now <= havdalah, the next day   *)
(* when it is defined and now > havdalah, and the plain date whenever      *)
(* havdalah is undefined.                                                  *)
(***************************************************************************)
C3_AfterNightfall ==
    CycleResolved =>
        /\ local.havdalah = Havdalah(CyclePlain)
        /\ (local.havdalah # None /\ CycleNow <= local.havdalah[1])
               => local.after_tzais_date = CyclePlain
        /\ (local.havdalah # None /\ CycleNow > local.havdalah[1])
               => local.after_tzais_date = CyclePlain + 1
        /\ local.havdalah = None => local.after_tzais_date = CyclePlain

C3_Witness ==
    /\ outcome = "updated"
    /\ local.havdalah # None
    /\ CycleNow > local.havdalah[1]
    /\ local.after_tzais_date = CyclePlain + 1

(***************************************************************************)
(* C4 as stated: in every cycle that got past the sunset lookup, the day   *)
(* index of afterNightfall is >= that of afterSunset, which is >= that of  *)
(* plain.                                                                  *)
(***************************************************************************)
C4_Monotone ==
    CycleResolved =>
        /\ local.after_tzais_date >= local.after_shkia_date
        /\ local.after_shkia_date >= local.daytime_date

(***************************************************************************)
(* C4 as amended: afterSunset and afterNightfall are each >= plain, and    *)
(* afterNightfall >= afterSunset exactly when now <= sunset or havdalah is *)
(* defined and now > havdalah; after sunset on a day without a passed      *)
(* havdalah afterNightfall is one day behind afterSunset.                  *)
(***************************************************************************)
C4_BothAtLeastPlain ==
    CycleResolved =>
        /\ local.after_shkia_date >= local.daytime_date
        /\ local.after_tzais_date >= local.daytime_date
        /\ (local.after_tzais_date >= local.after_shkia_date)
               <=> (CycleNow <= CycleSunset \/ HavdalahPassed)
        /\ (CycleNow > CycleSunset /\ ~HavdalahPassed)
               => local.after_tzais_date = local.after_shkia_date - 1

C4_Witness ==
    /\ outcome = "updated"
    /\ local.havdalah = None
    /\ local.after_tzais_date < local.after_shkia_date

(***************************************************************************)
(* C5 as stated: in every reachable state a weekly_portion sensor's        *)
(* options list is exactly the full set of Torah portions and a holiday    *)
(* sensor's is exactly the full set of holiday descriptions.               *)
(***************************************************************************)
C5_OptionsAlways ==
    cls = InfoClass =>
        /\ key = "weekly_portion" => IsExactly(options, AllNames(PARASHAOT))
        /\ key = "holiday" => IsExactly(options, AllNames(HOLIDAYS))

\* The options list of an enumerated sensor is the full list of its kind.
C5_Full ==
    /\ key = "weekly_portion" => IsExactly(options, AllNames(PARASHAOT))
    /\ key = "holiday" => IsExactly(options, AllNames(HOLIDAYS))

(***************************************************************************)
(* C5 as amended: a weekly_portion or holiday sensor has no options list   *)
(* until its first successful update cycle; every successful cycle leaves  *)
(* the options list exactly the full set (Torah portions, respectively     *)
(* holiday descriptions), and it then stays so in every later state,       *)
(* whatever cycles run or are skipped.                                     *)
(***************************************************************************)
C5_OptionsOnceUpdated ==
    /\ []((cls = InfoClass /\ key \in {"weekly_portion", "holiday"})
              => /\ outcome = "none" => options = None
                 /\ outcome = "updated" => C5_Full
                 /\ options = None \/ C5_Full)
    /\ [][(cls = InfoClass /\ key \in {"weekly_portion", "holiday"}
              /\ options # None) => options' = options]_vars

C5_Witness ==
    /\ cls = InfoClass
    /\ key = "weekly_portion"
    /\ outcome = "skipped"
    /\ IsExactly(options, AllNames(PARASHAOT))

(***************************************************************************)
(* C6: for a sensor of either class whose key has no derivation branch     *)
(* (and, for the time class, no time-table field), a cycle that got past   *)
(* the sunset lookup completes without raising and sets the value to null. *)
(***************************************************************************)
C6_UnmappedKeyYieldsNull ==
    (Unmapped /\ CycleResolved) => (outcome = "updated" /\ value = None)

(***************************************************************************)
(* C7 as stated: 21 descriptors with pairwise distinct keys, 5 info and 16 *)
(* time, the time ones being the 4 upcoming plus 12 plain daily-time       *)
(* sensors; setup creates exactly one sensor per descriptor.               *)
(***************************************************************************)
CatalogShape(total, info, time, upcoming, plain) ==
    /\ Len(INFO_SENSORS) + Len(TIME_SENSORS) = total
    /\ Len(INFO_SENSORS) = info
    /\ Len(TIME_SENSORS) = time
    /\ Cardinality(InfoKeys \cup TimeKeys) = total
    /\ Cardinality(TimeKeys \cap UpcomingKeys) = upcoming
    /\ Cardinality(PlainTimeKeys) = plain
    /\ Len(entities) = total
    /\ \A k \in InfoKeys :
          Cardinality({ i \in 1..Len(entities) : entities[i].key = k }) = 1
    /\ \A k \in TimeKeys :
          Cardinality({ i \in 1..Len(entities) : entities[i].key = k }) = 1
    /\ \A i \in 1..Len(entities) :
          \/ entities[i].cls = InfoClass /\ entities[i].key \in InfoKeys
          \/ entities[i].cls = TimeClass /\ entities[i].key \in TimeKeys

C7_Catalog21 ==
    entities # << >> => CatalogShape(21, 5, 16, 4, 12)

(***************************************************************************)
(* C7 as amended: 23 descriptors with pairwise distinct keys, 5 info and   *)
(* 18 time, the time ones being the 4 upcoming plus 14 plain daily-time    *)
(* sensors; setup creates exactly one sensor per descriptor.               *)
(***************************************************************************)
C7_Catalog23 ==
    entities # << >> => CatalogShape(23, 5, 18, 4, 14)

C7_Witness ==
    /\ entities # << >>
    /\ Len(entities) = Len(INFO_SENSORS) + Len(TIME_SENSORS)

(***************************************************************************)
(* C8: for each upcoming time sensor, every successful cycle requests the  *)
(* time table for a civil date derived from afterNightfall and reads the   *)
(* named field: Shabbat candle lighting the day before the upcoming        *)
(* Shabbat, candle lighting the day before the first day of the upcoming   *)
(* Shabbat or festival, Shabbat havdalah the upcoming Shabbat, havdalah    *)
(* the last day of the upcoming Shabbat or festival; the Shabbat           *)
(* candle-lighting date is one day before the Shabbat havdalah date.       *)
(***************************************************************************)
C8_UpcomingRequestDates ==
    (cls = TimeClass /\ key \in UpcomingKeys /\ outcome = "updated") =>
        /\ key = "upcoming_shabbat_candle_lighting" =>
              /\ local.zmanim_date = upcoming_shabbat(AfterNightfall) - 1
              /\ local.zmanim_date + 1 =
                     TimeRequestDate("upcoming_shabbat_havdalah",
                                     local.after_tzais_date, CycleNow)
              /\ local.zmanim_field = "candle_lighting"
        /\ key = "upcoming_candle_lighting" =>
              /\ local.zmanim_date =
                     first_day(upcoming_shabbat_or_yom_tov(AfterNightfall)) - 1
              /\ local.zmanim_field = "candle_lighting"
        /\ key = "upcoming_shabbat_havdalah" =>
              /\ local.zmanim_date = upcoming_shabbat(AfterNightfall)
              /\ local.zmanim_field = "havdalah"
        /\ key = "upcoming_havdalah" =>
              /\ local.zmanim_date =
                     last_day(upcoming_shabbat_or_yom_tov(AfterNightfall))
              /\ local.zmanim_field = "havdalah"
        /\ value = ZmanimRead(local.zmanim_date, local.zmanim_field)

\* Saturday between sunset and havdalah: afterSunset would give next week.
C8_Witness ==
    /\ cls = TimeClass
    /\ key = "upcoming_shabbat_candle_lighting"
    /\ outcome = "updated"
    /\ CycleNow > CycleSunset
    /\ upcoming_shabbat(AfterSunset) # upcoming_shabbat(AfterNightfall)
    /\ value = Some(Field("candle_lighting", upcoming_shabbat(CyclePlain) - 1))

(***************************************************************************)
(* C9: for the five info sensors, every successful cycle reads the value   *)
(* (and attributes) from the interpretation assigned to the key: date,     *)
(* holiday and omer_count from afterSunset, weekly_portion from the        *)
(* upcoming Shabbat of afterNightfall, daf_yomi from plain; the date       *)
(* sensor's attributes describe the same date as its value.                *)
(***************************************************************************)
C9_InfoSources ==
    /\ (cls = InfoClass /\ key \in InfoKeys /\ outcome = "updated") =>
          /\ key = "date" => value = Some(Field("hebrew_date", AfterSunset))
          /\ key = "holiday" =>
                 /\ value = Some(Field("holiday_description", AfterSunset))
                 /\ \A a \in attrs : a.date = AfterSunset
          /\ key = "omer_count" => value = Some(Field("omer_day", AfterSunset))
          /\ key = "weekly_portion" =>
                 value = Some(Field("parasha", upcoming_shabbat(AfterNightfall)))
          /\ key = "daf_yomi" => value = Some(Field("daf_yomi", PlainDate))
    /\ (cls = InfoClass /\ key = "date" /\ value # None) =>
          /\ { a.name : a \in attrs } =
                 {"hebrew_year", "hebrew_month_name", "hebrew_day"}
          /\ \A a \in attrs : a.date = value[1].date

\* After sunset, before havdalah: the date sensor is already on the next day.
C9_Witness ==
    /\ cls = InfoClass
    /\ key = "date"
    /\ outcome = "updated"
    /\ CycleNow > CycleSunset
    /\ ~HavdalahPassed
    /\ value = Some(Field("hebrew_date", CyclePlain + 1))

(***************************************************************************)
(* C10: for every plain daily-time sensor, every successful cycle reads    *)
(* the value from the time table of the civil date of the "now" the cycle  *)
(* resolved its day boundaries with, however the clock advances while the  *)
(* cycle runs.                                                             *)
(***************************************************************************)
C10_PlainTimeUsesCycleNow ==
    (cls = TimeClass /\ key \in PlainTimeKeys /\ outcome = "updated") =>
        /\ local.zmanim_date = CyclePlain
        /\ value = Some(Field(key, local.daytime_date))
====
